---- MODULE Spec2Model ----
(***************************************************************************)
(* A model of feldspar's generator pipeline (feldspar/generators.py):      *)
(* a TraceGenerator over an importer or a list, map and filter stages      *)
(* derived from it, and a _CacheGenerator (memory mode or file mode) on    *)
(* top, driven by a consumer that begins passes and pulls records.         *)
(***************************************************************************)
EXTENDS Integers, Sequences, FiniteSets, TLC

\* Longest base dataset (number of traces in the log).
MaxLen == 3
\* Number of distinct records a log may hold.
NumRec == 2
\* Most map / filter stages derived before the cache stage.
MaxTransforms == 1
\* Most passes the consumer begins on the cache stage.
MaxPasses == 3
\* Begin-pass calls made on one importer.
MaxBegins == 2
\* Most elements a log holds before its first trace.
MaxDecls == 2
\* Most cache stages constructed one after the other on the same target.
MaxInstances == 2

VARIABLES
    data,        \* the traces of the log behind the first stage, in order
    base,        \* what the TraceGenerator wraps: "importer" or "list"
    stages,      \* the chain of stages: TraceGenerator, then maps / filters
    fs,          \* the file system: path -> [exists, bytes]
    fs0,         \* the file system before the cache was constructed
    pc,          \* "build" (deriving stages), "ready" (cache built), "failed"
    filepath,    \* the cache's target ("None": memory mode)
    cached,      \* _CacheGenerator.__cached
    cacheBuf,    \* _CacheGenerator.__cache while it is the in-memory list
    cSource,     \* _CacheGenerator._source: [kind, pos]
    reader,      \* _PickleImporter.__source: [state, off]
    result,      \* outcome of the last operation on the cache stage
    delivered,   \* records handed to the consumer in the current pass
    passes,      \* passes begun on the cache stage
    exhausted,   \* the current pass has signalled end-of-sequence
    allFull,     \* every earlier pass was driven to exhaustion
    shortPass,   \* an earlier pass was abandoned before the upstream's last record
    upIters,     \* passes begun on the upstream stage
    upPulls,     \* records pulled from the upstream stage
    upExhausts,  \* times the upstream signalled end-of-sequence
    cursor,      \* the consumer's iterator over a map / filter / trace stage
    sig,         \* the format of the importer's file: "xes", "gz", "zip", "bz2"
    arg,         \* the compression argument XESImporter was constructed with
    compression, \* XESImporter.__compression
    ipc,         \* the importer: "new", "ready" (constructed), "failed"
    iSource,     \* XESImporter.__source: 0 (None or the path) or a handle
    iArchive,    \* XESImporter.__archive: 0 (None) or a handle
    iContext,    \* XESImporter.__context: [state, h, pos]
    handles,     \* every resource opened so far: [kind, pass, closes]
    got,         \* got[p]: the records pulled through the cursor of pass p
    dropped,     \* the passes whose cursor the consumer gave up unexhausted
    interleaved, \* a pull was made through a cursor older than the latest pass
    decls,       \* the elements of the log before its first trace, in order
    late,        \* the elements of the log after its first trace, traces left out
    upFail,      \* the base record whose production raises (0: none does)
    meta,        \* <<r>>: _extract_meta returned r last; <<>>: it has not returned
    metaRead,    \* elements the last _extract_meta took from its parser context
    traceObj,    \* a Trace object and what was last read from it
    instances    \* cache stages constructed so far

\* The importer's own state and the bookkeeping of its passes.
impVars == <<sig, arg, compression, ipc, iSource, iArchive, iContext, handles,
             got, dropped, interleaved, meta, metaRead>>

\* What the source is like; no operation changes it.
srcVars == <<decls, late, upFail>>

metaVars == <<meta, metaRead>>

vars == <<data, base, stages, fs, fs0, pc, filepath, cached, cacheBuf, cSource,
          reader, result, delivered, passes, exhausted, allFull, shortPass,
          upIters, upPulls, upExhausts, cursor, impVars, srcVars, traceObj, instances>>

Records == 1..NumRec

RECURSIVE SeqsUpTo(_, _)
SeqsUpTo(S, n) ==
    IF n = 0 THEN {<<>>}
    ELSE LET shorter == SeqsUpTo(S, n - 1)
         IN  shorter \cup {Append(s, x) : s \in {t \in shorter : Len(t) = n - 1}, x \in S}

Paths == {"absent.dat", "empty.dat", "data.dat"}

\* Contents a cache file may hold from an earlier run.
PriorContents == {<<2>>, <<2, 1>>}

-----------------------------------------------------------------------------
(* The functions the caller supplies to filter and map. *)

Predicate(x) == x % 2 = 1

MapFunc(x) == x + 2

-----------------------------------------------------------------------------
(* pickle: one frame per record (PROTO, BININT1, payload, STOP). *)

PickleDump(r) == <<128, 75, r, 46>>

\* A load that takes the opcode before the payload for the payload.
PickleLoadWrongField(bytes, off) ==
    IF off >= Len(bytes) THEN [status |-> "EOFError", value |-> 0, off |-> off]
    ELSE [status |-> "ok", value |-> bytes[off + 2], off |-> off + 4]

PickleLoad(bytes, off) ==
    IF off >= Len(bytes) THEN [status |-> "EOFError", value |-> 0, off |-> off]
    ELSE IF /\ off + 4 <= Len(bytes)
            /\ bytes[off + 1] = 128
            /\ bytes[off + 2] = 75
            /\ bytes[off + 4] = 46
         THEN [status |-> "ok", value |-> bytes[off + 3], off |-> off + 4]
         ELSE [status |-> "UnpicklingError", value |-> 0, off |-> off]

RECURSIVE DumpAll(_)
DumpAll(s) == IF s = <<>> THEN <<>> ELSE PickleDump(Head(s)) \o DumpAll(Tail(s))

RECURSIVE LoadAll(_, _)
LoadAll(bytes, off) ==
    LET r == PickleLoad(bytes, off)
    IN  IF r.status = "ok" THEN <<r.value>> \o LoadAll(bytes, r.off) ELSE <<>>

-----------------------------------------------------------------------------
(* Stages. *)

TraceGeneratorInit(attributes) ==
    [kind |-> "trace",
     attrs |-> IF attributes = "None" THEN "EmptyMeta" ELSE attributes]

FilterGeneratorInit == [kind |-> "filter", attrs |-> "None"]

MapGeneratorInit == [kind |-> "map", attrs |-> "None"]

\* ElementGenerator.attributes of stage i.
StageAttributes(i) == stages[i].attrs

\* One base record pushed through stages i..Len(sts): <<y>>, or <<>> if a
\* filter drops it.
RECURSIVE Through(_, _, _)
Through(sts, i, x) ==
    IF i > Len(sts) THEN <<x>>
    ELSE IF sts[i].kind = "filter"
         THEN IF Predicate(x) THEN Through(sts, i + 1, x) ELSE <<>>
         ELSE Through(sts, i + 1, MapFunc(x))

\* next() on an iterator of the top stage whose base cursor stands at pos.
RECURSIVE UpNext(_, _, _)
UpNext(sts, d, pos) ==
    IF pos >= Len(d) THEN [stop |-> TRUE, pos |-> pos, val |-> 0]
    ELSE LET y == Through(sts, 2, d[pos + 1])
         IN  IF y # <<>> THEN [stop |-> FALSE, pos |-> pos + 1, val |-> y[1]]
             ELSE UpNext(sts, d, pos + 1)

\* list(U): one full pass over the top stage from a fresh iterator.
RECURSIVE Drain(_, _, _)
Drain(sts, d, pos) ==
    LET r == UpNext(sts, d, pos)
    IN  IF r.stop THEN <<>> ELSE <<r.val>> \o Drain(sts, d, r.pos)

\* iter() on an iterator object returns the object itself; only the importer,
\* which is its own iterator, reopens its source.
RestartsOnIter == base = "importer" /\ Len(stages) = 1

-----------------------------------------------------------------------------
(* _CacheGenerator: helpers. *)

\* A validation that accepts every path.
ValidateFilepathAlways(path) == TRUE

\* A validation that accepts exactly the paths that do not exist.
ValidateFilepathInverted(path) == ~fs[path].exists

ValidateFilepath(path) == fs[path].exists

\* The size test inverted / dropped.
NeedsPopulationInverted(size) == size # 0

NeedsPopulationAlways(size) == TRUE

NeedsPopulation(size) == size = 0

\* The bytes __pickle_generator_to_file writes: one frame per record of one
\* full pass over the source.
PickleGeneratorToFile(sts, d) == DumpAll(Drain(sts, d, 0))

\* Reading the base records after pos up to and including n raises.
FaultIn(pos, n) == upFail > pos /\ upFail <= n

\* The base records read before the one whose production raises.
BeforeFault(d) == SubSeq(d, 1, upFail - 1)

\* A pass that always starts from the original upstream stage.
SourceAtIterNoSwap(c, src) ==
    IF c /\ filepath # "None" THEN [kind |-> "pickle", pos |-> 0]
    ELSE IF c THEN [kind |-> "stage", pos |-> 0]
    ELSE src

\* A pass over the populated buffer that goes on where the last one stopped.
SourceAtIterResumed(c, src) ==
    IF c THEN IF filepath = "None"
              THEN IF src.kind = "bufiter" THEN src
                   ELSE [kind |-> "buffer", pos |-> 0]
              ELSE [kind |-> "pickle", pos |-> 0]
    ELSE src

\* __iter__: the source a pass starts from.
SourceAtIter(c, src) ==
    IF c THEN IF filepath = "None" THEN [kind |-> "buffer", pos |-> 0]
              ELSE [kind |-> "pickle", pos |-> 0]
    ELSE src

\* An iter() that takes a first record from the stage at once.
IterOfPrefetching(src) ==
    CASE src.kind = "stage"   -> [kind |-> "upiter", pos |-> 1]
      [] src.kind = "upiter"  -> IF RestartsOnIter THEN [kind |-> "upiter", pos |-> 1]
                                 ELSE src
      [] src.kind = "buffer"  -> [kind |-> "bufiter", pos |-> 0]
      [] src.kind = "bufiter" -> src
      [] src.kind = "pickle"  -> src

\* __iter__: iter(self._source).
IterOf(src) ==
    CASE src.kind = "stage"   -> [kind |-> "upiter", pos |-> 0]
      [] src.kind = "upiter"  -> IF RestartsOnIter THEN [kind |-> "upiter", pos |-> 0]
                                 ELSE src
      [] src.kind = "buffer"  -> [kind |-> "bufiter", pos |-> 0]
      [] src.kind = "bufiter" -> src
      [] src.kind = "pickle"  -> src

\* A pull that forgets to buffer the record.
BufferAfterPullDropped(c, buf, trace) == buf

\* __next__: the buffer after a record was pulled.
BufferAfterPull(c, buf, trace) == IF ~c THEN Append(buf, trace) ELSE buf

\* An end-of-sequence that flips the flag instead of setting it.
CachedAfterStopToggle(c) == ~c

\* __next__: the population flag after the source signalled end-of-sequence.
CachedAfterStop(c) == IF ~c THEN TRUE ELSE c

\* __next__: the source after the source signalled end-of-sequence.
SourceAfterStop(c, src) == IF ~c THEN [kind |-> "buffer", pos |-> 0] ELSE src

\* The attributes property of the cache stage.
CacheAttributes ==
    IF cached THEN StageAttributes(Len(stages))
    ELSE IF cSource.kind = "stage" THEN StageAttributes(Len(stages))
         ELSE "AttributeError"

-----------------------------------------------------------------------------
(* Initial state: a TraceGenerator has been constructed on its source. *)

\* No Trace object has been built.
NoTrace == [obj |-> <<>>, given |-> <<>>, read |-> <<>>]

\* No importer is being driven directly.
ImporterUnused ==
    /\ sig = "xes"
    /\ arg = "None"
    /\ compression = "None"
    /\ ipc = "new"
    /\ iSource = 0
    /\ iArchive = 0
    /\ iContext = [state |-> "none", h |-> 0, pos |-> 0]
    /\ handles = <<>>
    /\ got = <<>>
    /\ dropped = {}
    /\ interleaved = FALSE
    /\ decls = <<>>
    /\ late = <<>>
    /\ meta = <<>>
    /\ metaRead = 0
    /\ traceObj = NoTrace
    /\ instances = 0

\* A TraceGenerator on its source, and the files there are.
Start ==
    /\ data \in SeqsUpTo(Records, MaxLen)
    /\ base \in {"importer", "list"}
    /\ \E a \in {"None", "M1"} :
          /\ base = "importer" => a = "M1"
          /\ stages = <<TraceGeneratorInit(a)>>
    /\ \E prior \in PriorContents :
          fs = [p \in Paths |->
                  CASE p = "absent.dat" -> [exists |-> FALSE, bytes |-> <<>>]
                    [] p = "empty.dat"  -> [exists |-> TRUE, bytes |-> <<>>]
                    [] p = "data.dat"   -> [exists |-> TRUE, bytes |-> DumpAll(prior)]]
    /\ fs0 = fs
    /\ pc = "build"
    /\ filepath = "None"
    /\ cached = FALSE
    /\ cacheBuf = <<>>
    /\ cSource = [kind |-> "none", pos |-> 0]
    /\ reader = [state |-> "unset", off |-> 0]
    /\ result = "none"
    /\ delivered = <<>>
    /\ passes = 0
    /\ exhausted = FALSE
    /\ allFull = TRUE
    /\ shortPass = FALSE
    /\ upIters = 0
    /\ upPulls = 0
    /\ upExhausts = 0
    /\ cursor = [kind |-> "none", depth |-> 0, pos |-> 0]
    /\ ImporterUnused

Init ==
    /\ Start
    /\ upFail = 0

\* Upstreams in which producing one base record raises.
InitFault ==
    /\ Start
    /\ upFail \in 1..Len(data)

-----------------------------------------------------------------------------
(* Deriving stages. *)

Filter ==
    /\ pc = "build"
    /\ Len(stages) < 1 + MaxTransforms
    /\ stages' = Append(stages, FilterGeneratorInit)
    /\ UNCHANGED <<data, base, fs, fs0, pc, filepath, cached, cacheBuf, cSource,
                   reader, result, delivered, passes, exhausted, allFull,
                   shortPass, upIters, upPulls, upExhausts, cursor, impVars,
                   srcVars, traceObj, instances>>

Map ==
    /\ pc = "build"
    /\ Len(stages) < 1 + MaxTransforms
    /\ stages' = Append(stages, MapGeneratorInit)
    /\ UNCHANGED <<data, base, fs, fs0, pc, filepath, cached, cacheBuf, cSource,
                   reader, result, delivered, passes, exhausted, allFull,
                   shortPass, upIters, upPulls, upExhausts, cursor, impVars,
                   srcVars, traceObj, instances>>

\* _CacheGenerator.__init__(source, filepath), for a source over the base
\* records d.
CacheBuild(fp, d) ==
    /\ filepath' = fp
    /\ cacheBuf' = <<>>
    /\ IF fp = "None"
       THEN /\ cached' = FALSE
            /\ cSource' = [kind |-> "stage", pos |-> 0]
            /\ pc' = "ready"
            /\ result' = "constructed"
            /\ UNCHANGED <<fs, upIters, upPulls, upExhausts>>
       ELSE IF ~ValidateFilepath(fp)
       THEN /\ pc' = "failed"
            /\ result' = "ValueError"
            /\ UNCHANGED <<fs, cached, cSource, upIters, upPulls, upExhausts>>
       ELSE IF ~fs[fp].exists
       THEN /\ pc' = "failed"
            /\ result' = "FileNotFoundError"
            /\ UNCHANGED <<fs, cached, cSource, upIters, upPulls, upExhausts>>
       ELSE IF NeedsPopulation(Len(fs[fp].bytes)) /\ FaultIn(0, Len(d))
       THEN \* the source raises inside the with-block: the file is closed
            \* with the frames written so far, the constructor does not return
            /\ fs' = [fs EXCEPT ![fp] =
                        [exists |-> TRUE,
                         bytes |-> PickleGeneratorToFile(stages, BeforeFault(d))]]
            /\ upIters' = upIters + 1
            /\ upPulls' = upPulls + Len(Drain(stages, BeforeFault(d), 0))
            /\ pc' = "failed"
            /\ result' = "UpstreamError"
            /\ UNCHANGED <<cached, cSource, upExhausts>>
       ELSE /\ IF NeedsPopulation(Len(fs[fp].bytes))
               THEN /\ fs' = [fs EXCEPT ![fp] =
                                [exists |-> TRUE,
                                 bytes |-> PickleGeneratorToFile(stages, d)]]
                    /\ upIters' = upIters + 1
                    /\ upPulls' = upPulls + Len(Drain(stages, d, 0))
                    /\ upExhausts' = upExhausts + 1
               ELSE UNCHANGED <<fs, upIters, upPulls, upExhausts>>
            /\ cached' = TRUE
            /\ cSource' = [kind |-> "pickle", pos |-> 0]
            /\ pc' = "ready"
            /\ result' = "constructed"
    /\ instances' = instances + 1

\* The first cache stage derived from the pipeline.
CacheInit(fp) ==
    /\ pc = "build"
    /\ CacheBuild(fp, data)
    /\ UNCHANGED <<data, base, stages, fs0, reader, delivered, passes,
                   exhausted, allFull, shortPass, cursor, impVars, srcVars,
                   traceObj>>

Cache == \E fp \in Paths \cup {"None"} : CacheInit(fp)

-----------------------------------------------------------------------------
(* Consuming the cache stage. *)

\* _CacheGenerator.__iter__
CacheIter ==
    /\ pc = "ready"
    /\ passes < MaxPasses
    /\ LET src == SourceAtIter(cached, cSource)
           it  == IterOf(src)
       IN  /\ cSource' = it
           /\ reader' = IF src.kind = "pickle" THEN [state |-> "open", off |-> 0]
                        ELSE reader
           /\ upIters' = IF src.kind = "stage" \/ (src.kind = "upiter" /\ RestartsOnIter)
                         THEN upIters + 1 ELSE upIters
    /\ passes' = passes + 1
    /\ delivered' = <<>>
    /\ exhausted' = FALSE
    /\ allFull' = (allFull /\ (passes = 0 \/ exhausted))
    /\ shortPass' = (shortPass \/ (/\ passes > 0
                                   /\ ~exhausted
                                   /\ Len(delivered) < Len(Drain(stages, data, 0))))
    /\ result' = "iter"
    /\ UNCHANGED <<data, base, stages, fs, fs0, pc, filepath, cached, cacheBuf,
                   upPulls, upExhausts, cursor, impVars, srcVars, traceObj, instances>>

\* next(self._source) inside _CacheGenerator.__next__: what the source answers.
SourceNext ==
    CASE cSource.kind = "stage"   -> [status |-> "TypeError", val |-> 0, pos |-> 0]
      [] cSource.kind = "buffer"  -> [status |-> "TypeError", val |-> 0, pos |-> 0]
      [] cSource.kind = "upiter"  ->
            LET r == UpNext(stages, data, cSource.pos)
            IN  IF FaultIn(cSource.pos, r.pos)
                THEN [status |-> "UpstreamError", val |-> 0, pos |-> upFail]
                ELSE [status |-> IF r.stop THEN "StopIteration" ELSE "record",
                      val |-> r.val, pos |-> r.pos]
      [] cSource.kind = "bufiter" ->
            IF cSource.pos < Len(cacheBuf)
            THEN [status |-> "record", val |-> cacheBuf[cSource.pos + 1],
                  pos |-> cSource.pos + 1]
            ELSE [status |-> "StopIteration", val |-> 0, pos |-> cSource.pos]
      [] cSource.kind = "pickle"  ->
            IF reader.state = "unset"
            THEN [status |-> "AttributeError", val |-> 0, pos |-> 0]
            ELSE IF reader.state = "closed"
            THEN [status |-> "ValueError", val |-> 0, pos |-> 0]
            ELSE LET r == PickleLoad(fs[filepath].bytes, reader.off)
                 IN  [status |-> IF r.status = "ok" THEN "record"
                                 ELSE IF r.status = "EOFError" THEN "StopIteration"
                                 ELSE r.status,
                      val |-> r.value, pos |-> r.off]

\* _CacheGenerator.__next__
CacheNext ==
    /\ pc = "ready"
    /\ LET r == SourceNext
       IN  /\ result' = r.status
           /\ IF r.status = "record"
              THEN /\ cacheBuf' = BufferAfterPull(cached, cacheBuf, r.val)
                   /\ delivered' = Append(delivered, r.val)
                   /\ cSource' = IF cSource.kind = "pickle" THEN cSource
                                 ELSE [cSource EXCEPT !.pos = r.pos]
                   /\ reader' = IF cSource.kind = "pickle"
                                THEN [reader EXCEPT !.off = r.pos] ELSE reader
                   /\ upPulls' = IF cSource.kind = "upiter" THEN upPulls + 1 ELSE upPulls
                   /\ UNCHANGED <<cached, exhausted, upExhausts>>
              ELSE IF r.status = "StopIteration"
              THEN /\ cached' = CachedAfterStop(cached)
                   /\ cSource' = SourceAfterStop(cached, cSource)
                   /\ reader' = IF cSource.kind = "pickle"
                                THEN [reader EXCEPT !.state = "closed"] ELSE reader
                   /\ exhausted' = TRUE
                   /\ upExhausts' = IF cSource.kind = "upiter" THEN upExhausts + 1
                                    ELSE upExhausts
                   /\ UNCHANGED <<cacheBuf, delivered, upPulls>>
              ELSE /\ cSource' = IF r.status = "UpstreamError"
                                 THEN [cSource EXCEPT !.pos = r.pos] ELSE cSource
                   /\ UNCHANGED <<cached, cacheBuf, reader, delivered,
                                  exhausted, upPulls, upExhausts>>
    /\ UNCHANGED <<data, base, stages, fs, fs0, pc, filepath, passes, allFull,
                   shortPass, upIters, cursor, impVars, srcVars, traceObj, instances>>

Next == Filter \/ Map \/ Cache \/ CacheIter \/ CacheNext

Spec == Init /\ [][Next]_vars

\* A later cache stage, on the target of the one there is, derived from a
\* pipeline of the same stages over a log of its own.
CacheAgain ==
    /\ pc = "ready"
    /\ filepath # "None"
    /\ instances < MaxInstances
    /\ \E d \in SeqsUpTo(Records, MaxLen) :
          /\ data' = d
          /\ CacheBuild(filepath, d)
    /\ fs0' = fs
    /\ reader' = [state |-> "unset", off |-> 0]
    /\ delivered' = <<>>
    /\ passes' = 0
    /\ exhausted' = FALSE
    /\ allFull' = TRUE
    /\ shortPass' = FALSE
    /\ UNCHANGED <<base, stages, cursor, impVars, srcVars, traceObj>>

NextAgain == Filter \/ Map \/ Cache \/ CacheAgain \/ CacheIter \/ CacheNext

\* Pipelines whose cache target is used by a later cache stage as well.
SpecAgain == Init /\ [][NextAgain]_vars

\* The same pipeline over an upstream that raises part-way.
SpecFault == InitFault /\ [][Next]_vars

-----------------------------------------------------------------------------
(* Consuming a trace, filter or map stage directly. *)

\* The cache stage's own state.
cacheVars == <<fs, fs0, pc, filepath, cached, cacheBuf, cSource, reader,
               upIters, upPulls, upExhausts>>

\* A pass that resumes where the previous cursor stood.
StageIterPosResumed(cur) == cur.pos

\* The base position of the iterator a begin-pass returns: iter() of the
\* stage below is taken anew by every __iter__.
StageIterPos(cur) == 0

\* A pull that hands on the records of the stage below a filter as they are.
StagePullUnfiltered(cur) ==
    IF stages[cur.depth].kind = "filter"
    THEN UpNext(SubSeq(stages, 1, cur.depth - 1), data, cur.pos)
    ELSE UpNext(SubSeq(stages, 1, cur.depth), data, cur.pos)

\* A pull that hands on the records of the stage below a map as they are.
StagePullUnmapped(cur) ==
    IF stages[cur.depth].kind = "map"
    THEN UpNext(SubSeq(stages, 1, cur.depth - 1), data, cur.pos)
    ELSE UpNext(SubSeq(stages, 1, cur.depth), data, cur.pos)

\* next() on the filter / map / source iterator the cursor is.
StagePull(cur) == UpNext(SubSeq(stages, 1, cur.depth), data, cur.pos)

\* __iter__ of the top stage: TraceGenerator, _FilterGenerator, _MapGenerator.
StageIter ==
    /\ pc = "build"
    /\ passes < MaxPasses
    /\ cursor' = [kind |-> "iter", depth |-> Len(stages), pos |-> StageIterPos(cursor)]
    /\ passes' = passes + 1
    /\ delivered' = <<>>
    /\ exhausted' = FALSE
    /\ allFull' = (allFull /\ (passes = 0 \/ exhausted))
    /\ shortPass' = (shortPass \/ (/\ passes > 0
                                   /\ ~exhausted
                                   /\ Len(delivered) <
                                        Len(Drain(SubSeq(stages, 1, cursor.depth), data, 0))))
    /\ result' = "iter"
    /\ UNCHANGED <<data, base, stages, cacheVars, impVars, srcVars, traceObj, instances>>

\* next() on the iterator the last begin-pass returned.
StageNext ==
    /\ pc = "build"
    /\ cursor.kind = "iter"
    /\ IF exhausted /\ base = "importer"
       THEN \* the importer deleted its parser context at end-of-sequence
            /\ result' = "AttributeError"
            /\ UNCHANGED <<cursor, delivered, exhausted>>
       ELSE LET r == StagePull(cursor)
            IN  IF r.stop
                THEN /\ result' = "StopIteration"
                     /\ exhausted' = TRUE
                     /\ cursor' = [cursor EXCEPT !.pos = r.pos]
                     /\ UNCHANGED delivered
                ELSE /\ result' = "record"
                     /\ delivered' = Append(delivered, r.val)
                     /\ cursor' = [cursor EXCEPT !.pos = r.pos]
                     /\ UNCHANGED exhausted
    /\ UNCHANGED <<data, base, stages, cacheVars, passes, allFull, shortPass,
                   impVars, srcVars, traceObj, instances>>

NextStages == Filter \/ Map \/ StageIter \/ StageNext

SpecStages == Init /\ [][NextStages]_vars

-----------------------------------------------------------------------------
(* XESImporter driven directly (or through TraceGenerator.__iter__, which    *)
(* returns iter() of the importer, the importer itself).                     *)

Sigs == {"xes", "gz", "zip", "bz2"}

CompressionArgs == {"None", "infer", "gz", "zip"}

ParsableCompressions == {"gz", "zip"}

\* infer_compression: the type filetype.guess reads off the header bytes
\* ("None": no known signature, as for plain markup).
InferCompression(s) == IF s = "xes" THEN "None" ELSE s

\* A constructor that never rejects the guess.
UnsupportedNever(a, guess) == FALSE

\* __init__: the guess that makes construction fail.
Unsupported(a, guess) ==
    guess # "None" /\ a = "infer" /\ guess \notin ParsableCompressions

\* __init__: the guess that makes construction warn.
Warns(a, guess) == guess # "None" /\ a = "None"

\* Everything but the importer and its consumer.
notImporter == <<base, stages, cacheVars, cursor, allFull, shortPass, traceObj, instances>>

\* XESImporter.__init__(filepath, compression)
XESImporterInit(a) ==
    /\ ipc = "new"
    /\ arg' = a
    /\ LET guess == InferCompression(sig)
       IN  IF Unsupported(a, guess)
           THEN /\ ipc' = "failed"
                /\ result' = "ValueError"
                /\ UNCHANGED compression
           ELSE /\ ipc' = "ready"
                /\ compression' = a
                /\ result' = IF Warns(a, guess) THEN "Warning" ELSE "constructed"
    /\ iSource' = 0
    /\ iArchive' = 0
    /\ iContext' = [state |-> "none", h |-> 0, pos |-> 0]
    /\ UNCHANGED <<data, sig, handles, got, dropped, interleaved, passes,
                   delivered, exhausted, notImporter, srcVars, metaVars>>

Construct == \E a \in CompressionArgs : XESImporterInit(a)

\* The decoding chain __initialize_resources sets up fits the file.
ChainMatches ==
    \/ compression = "None" /\ sig = "xes"
    \/ compression = "gz" /\ sig = "gz"

\* __initialize_resources returns normally.
InitOk == compression \in {"None", "gz"}

\* What __initialize_resources raises otherwise: on "zip" self.namelist() does
\* not exist (or the file is no archive); any other value leaves __source None.
InitError ==
    IF compression = "zip"
    THEN IF sig = "zip" THEN "AttributeError" ELSE "BadZipFile"
    ELSE "TypeError"

\* A parser context that keeps the position of the one it replaces.
StaleContext(h) == [state |-> "live", h |-> h, pos |-> iContext.pos]

\* etree.iterparse(source, ...): a new context at the start of the source.
FreshContext(h) == [state |-> "live", h |-> h, pos |-> 0]

\* __initialize_resources, for pass p (0: the metadata pass).
InitializeResources(p) ==
    LET n == Len(handles)
    IN  CASE compression = "None" ->
                /\ handles' = Append(handles, [kind |-> "context", pass |-> p, closes |-> 0])
                /\ iSource' = 0
                /\ iContext' = FreshContext(n + 1)
                /\ UNCHANGED iArchive
          [] compression = "gz" ->
                /\ handles' = handles \o <<[kind |-> "gzip", pass |-> p, closes |-> 0],
                                           [kind |-> "context", pass |-> p, closes |-> 0]>>
                /\ iSource' = n + 1
                /\ iContext' = FreshContext(n + 2)
                /\ UNCHANGED iArchive
          [] compression = "zip" /\ sig = "zip" ->
                /\ handles' = Append(handles, [kind |-> "archive", pass |-> p, closes |-> 0])
                /\ iArchive' = n + 1
                /\ UNCHANGED <<iSource, iContext>>
          [] OTHER -> UNCHANGED <<handles, iSource, iArchive, iContext>>

\* A clean-up that releases the parser context only.
ReleasedAtCleanContextOnly == {iContext.h}

\* A clean-up that releases nothing.
ReleasedOfNothing(c, s, a) == {}

\* __clean_resources with context c, source s and archive a: what it releases.
ReleasedOf(c, s, a) ==
    {c} \cup
        (IF compression # "None"
         THEN {s} \cup (IF a # 0 THEN {a} ELSE {})
         ELSE {})

\* __clean_resources: the handles it releases.
ReleasedAtClean == ReleasedOf(iContext.h, iSource, iArchive)

\* The handles after releasing those of R.
Release(hs, R) ==
    [h \in DOMAIN hs |-> IF h \in R THEN [hs[h] EXCEPT !.closes = @ + 1] ELSE hs[h]]

\* XESImporter.__iter__
ImpIter ==
    /\ ipc = "ready"
    /\ passes < MaxBegins
    /\ InitializeResources(passes + 1)
    /\ passes' = passes + 1
    /\ got' = Append(got, <<>>)
    /\ IF InitOk
       THEN /\ result' = "iter"
            /\ delivered' = <<>>
            /\ exhausted' = FALSE
       ELSE /\ result' = InitError
            /\ UNCHANGED <<delivered, exhausted>>
    /\ UNCHANGED <<data, sig, arg, compression, ipc, dropped, interleaved,
                   notImporter, srcVars, metaVars>>

\* The passes whose begin-pass returned a cursor the consumer still holds.
Cursors ==
    {p \in 1..passes :
        \E h \in DOMAIN handles : handles[h].pass = p /\ handles[h].kind = "context"}
    \ dropped

\* next(self.__context): the context after it produced an element.
ContextAfterPull(ctx) == [ctx EXCEPT !.pos = @ + 1]

\* XESImporter.__next__, called through the cursor of pass c
ImpNext(c) ==
    /\ ipc = "ready"
    /\ c \in Cursors
    /\ IF iContext.state # "live"
       THEN /\ result' = "AttributeError"
            /\ UNCHANGED <<iContext, handles, got, delivered, exhausted, interleaved>>
       ELSE IF ~ChainMatches
       THEN /\ result' = "ParseError"
            /\ UNCHANGED <<iContext, handles, got, delivered, exhausted, interleaved>>
       ELSE IF iContext.pos < Len(data)
       THEN /\ result' = "record"
            /\ iContext' = ContextAfterPull(iContext)
            /\ got' = [got EXCEPT ![c] = Append(@, data[iContext.pos + 1])]
            /\ delivered' = Append(delivered, data[iContext.pos + 1])
            /\ interleaved' = (interleaved \/ c # passes)
            /\ UNCHANGED <<handles, exhausted>>
       ELSE /\ result' = "StopIteration"
            /\ handles' = Release(handles, ReleasedAtClean)
            /\ iContext' = [state |-> "deleted", h |-> 0, pos |-> 0]
            /\ exhausted' = TRUE
            /\ interleaved' = (interleaved \/ c # passes)
            /\ UNCHANGED <<got, delivered>>
    /\ UNCHANGED <<data, sig, arg, compression, ipc, iSource, iArchive, dropped,
                   passes, notImporter, srcVars, metaVars>>

Pull == \E c \in 1..passes : ImpNext(c)

\* The tags of the elements a log holds beside its traces: log-level
\* attributes ("string"), classifiers, extensions and global declarations.
DeclTags == {"string", "classifier", "extension", "global"}

\* The log's elements in document order.
Elements == decls \o [i \in 1..Len(data) |-> "trace"] \o late

\* A scan that never stops early.
MetaScannedAll(es) == Len(es)

\* _extract_meta: the elements its loop takes from the context; it breaks on
\* the first trace.
MetaScanned(es) ==
    IF \E i \in DOMAIN es : es[i] = "trace"
    THEN CHOOSE i \in DOMAIN es :
            es[i] = "trace" /\ \A j \in 1..(i - 1) : es[j] # "trace"
    ELSE Len(es)

\* The elements among the first n that carry the tag (by position).
Tagged(es, n, tag) == {i \in 1..n : es[i] = tag}

\* _extract_meta: the record it returns.
MetaRecord(es) ==
    LET n == MetaScanned(es)
    IN  [attributes  |-> {},
         classifiers |-> Tagged(es, n, "classifier"),
         extensions  |-> Tagged(es, n, "extension"),
         omni        |-> Tagged(es, n, "global")]

\* XESImporter._extract_meta: a pass of its own that stops at the first trace.
ExtractMeta ==
    /\ ipc = "ready"
    /\ ~\E h \in DOMAIN handles : handles[h].pass = 0
    /\ IF ~InitOk
       THEN /\ InitializeResources(0)
            /\ result' = InitError
            /\ UNCHANGED metaVars
       ELSE IF ~ChainMatches
       THEN /\ InitializeResources(0)
            /\ result' = "ParseError"
            /\ UNCHANGED metaVars
       ELSE LET n == Len(handles)
                opened == IF compression = "None"
                          THEN <<[kind |-> "context", pass |-> 0, closes |-> 0]>>
                          ELSE <<[kind |-> "gzip", pass |-> 0, closes |-> 0],
                                 [kind |-> "context", pass |-> 0, closes |-> 0]>>
                src == IF compression = "None" THEN 0 ELSE n + 1
                ctx == n + Len(opened)
            IN  /\ handles' = Release(handles \o opened, ReleasedOf(ctx, src, iArchive))
                /\ iSource' = src
                /\ iContext' = [state |-> "deleted", h |-> 0, pos |-> 0]
                /\ meta' = <<MetaRecord(Elements)>>
                /\ metaRead' = MetaScanned(Elements)
                /\ result' = "meta"
                /\ UNCHANGED iArchive
    /\ UNCHANGED <<data, sig, arg, compression, ipc, got, dropped, interleaved,
                   passes, delivered, exhausted, notImporter, srcVars>>

\* The consumer gives up the cursor of the latest pass before exhaustion.
Abandon ==
    /\ ipc = "ready"
    /\ passes \in Cursors
    /\ ~exhausted
    /\ dropped' = dropped \cup {passes}
    /\ UNCHANGED <<data, sig, arg, compression, ipc, iSource, iArchive, iContext,
                   handles, got, interleaved, passes, delivered, exhausted,
                   result, notImporter, srcVars, metaVars>>

\* The handles the importer still refers to.
Referenced == {iSource, iArchive, iContext.h}

\* The runtime finalizes a handle nothing refers to any more; when it does so
\* is not determined.
Collect ==
    /\ ipc = "ready"
    /\ LET garbage == {h \in DOMAIN handles :
                           h \notin Referenced /\ handles[h].closes = 0}
       IN  /\ garbage # {}
           /\ handles' = Release(handles, garbage)
    /\ UNCHANGED <<data, sig, arg, compression, ipc, iSource, iArchive, iContext,
                   got, dropped, interleaved, passes, delivered, exhausted,
                   result, notImporter, srcVars, metaVars>>

\* An importer not yet constructed, on a file of any format.
ImporterStart ==
    /\ data \in SeqsUpTo(Records, MaxLen)
    /\ sig \in Sigs
    /\ arg = "None"
    /\ compression = "None"
    /\ ipc = "new"
    /\ iSource = 0
    /\ iArchive = 0
    /\ iContext = [state |-> "none", h |-> 0, pos |-> 0]
    /\ handles = <<>>
    /\ got = <<>>
    /\ dropped = {}
    /\ interleaved = FALSE
    /\ upFail = 0
    /\ meta = <<>>
    /\ metaRead = 0
    /\ traceObj = NoTrace
    /\ instances = 0
    /\ base = "importer"
    /\ stages = <<TraceGeneratorInit("M1")>>
    /\ fs = [p \in Paths |-> [exists |-> FALSE, bytes |-> <<>>]]
    /\ fs0 = fs
    /\ pc = "build"
    /\ filepath = "None"
    /\ cached = FALSE
    /\ cacheBuf = <<>>
    /\ cSource = [kind |-> "none", pos |-> 0]
    /\ reader = [state |-> "unset", off |-> 0]
    /\ result = "none"
    /\ delivered = <<>>
    /\ passes = 0
    /\ exhausted = FALSE
    /\ allFull = TRUE
    /\ shortPass = FALSE
    /\ upIters = 0
    /\ upPulls = 0
    /\ upExhausts = 0
    /\ cursor = [kind |-> "none", depth |-> 0, pos |-> 0]

InitImporter ==
    /\ ImporterStart
    /\ decls = <<>>
    /\ late = <<>>

NextImporter == Construct \/ ImpIter \/ Pull \/ ExtractMeta \/ Abandon \/ Collect

SpecImporter == InitImporter /\ [][NextImporter]_vars

\* The importer on logs that carry declarations.
InitMeta ==
    /\ ImporterStart
    /\ decls \in SeqsUpTo(DeclTags, MaxDecls)
    /\ late \in {<<>>, <<"classifier">>}

NextMeta == Construct \/ ExtractMeta \/ ImpIter \/ Pull

SpecMeta == InitMeta /\ [][NextMeta]_vars

-----------------------------------------------------------------------------
(* _PickleImporter driven directly, over a file the writer filled. *)

\* Everything but the reader and its consumer.
notReader == <<data, base, stages, fs, fs0, pc, filepath, cached, cacheBuf,
               cSource, allFull, shortPass, upIters, upPulls, upExhausts,
               cursor, sig, arg, compression, ipc, iSource, iArchive, iContext,
               got, interleaved, metaVars, srcVars, traceObj, instances>>

\* _PickleImporter.__iter__: the handle is the newest entry of handles.
PickleIter ==
    /\ pc = "reader"
    /\ passes < MaxPasses
    /\ handles' = Append(handles, [kind |-> "file", pass |-> passes + 1, closes |-> 0])
    /\ reader' = [state |-> "open", off |-> 0]
    /\ passes' = passes + 1
    /\ delivered' = <<>>
    /\ exhausted' = FALSE
    /\ result' = "iter"
    /\ UNCHANGED <<dropped, notReader>>

\* _PickleImporter.__next__
PickleNext ==
    /\ pc = "reader"
    /\ IF reader.state = "unset"
       THEN /\ result' = "AttributeError"
            /\ UNCHANGED <<reader, handles, delivered, exhausted>>
       ELSE IF reader.state = "closed"
       THEN /\ result' = "ValueError"
            /\ UNCHANGED <<reader, handles, delivered, exhausted>>
       ELSE LET r == PickleLoad(fs[filepath].bytes, reader.off)
            IN  IF r.status = "ok"
                THEN /\ result' = "record"
                     /\ reader' = [reader EXCEPT !.off = r.off]
                     /\ delivered' = Append(delivered, r.value)
                     /\ UNCHANGED <<handles, exhausted>>
                ELSE IF r.status = "EOFError"
                THEN /\ result' = "StopIteration"
                     /\ reader' = [reader EXCEPT !.state = "closed"]
                     /\ handles' = Release(handles, {Len(handles)})
                     /\ exhausted' = TRUE
                     /\ UNCHANGED delivered
                ELSE /\ result' = r.status
                     /\ UNCHANGED <<reader, handles, delivered, exhausted>>
    /\ UNCHANGED <<passes, dropped, notReader>>

\* The consumer stops pulling from the current pass before its end.
ReaderAbandon ==
    /\ pc = "reader"
    /\ passes >= 1
    /\ ~exhausted
    /\ passes \notin dropped
    /\ dropped' = dropped \cup {passes}
    /\ UNCHANGED <<reader, handles, passes, delivered, exhausted, result, notReader>>

\* The runtime finalizes the file objects __iter__ has overwritten; when it
\* does so is not determined.
ReaderCollect ==
    /\ pc = "reader"
    /\ LET garbage == {h \in DOMAIN handles :
                           h # Len(handles) /\ handles[h].closes = 0}
       IN  /\ garbage # {}
           /\ handles' = Release(handles, garbage)
    /\ UNCHANGED <<reader, passes, dropped, delivered, exhausted, result, notReader>>

InitReader ==
    /\ data \in SeqsUpTo(Records, MaxLen)
    /\ base = "list"
    /\ stages = <<TraceGeneratorInit("None")>>
    /\ fs = [p \in Paths |->
               CASE p = "absent.dat" -> [exists |-> FALSE, bytes |-> <<>>]
                 [] p = "empty.dat"  -> [exists |-> TRUE, bytes |-> <<>>]
                 [] p = "data.dat"   -> [exists |-> TRUE, bytes |-> DumpAll(data)]]
    /\ fs0 = fs
    /\ pc = "reader"
    /\ filepath = "data.dat"
    /\ cached = FALSE
    /\ cacheBuf = <<>>
    /\ cSource = [kind |-> "none", pos |-> 0]
    /\ reader = [state |-> "unset", off |-> 0]
    /\ result = "none"
    /\ delivered = <<>>
    /\ passes = 0
    /\ exhausted = FALSE
    /\ allFull = TRUE
    /\ shortPass = FALSE
    /\ upIters = 0
    /\ upPulls = 0
    /\ upExhausts = 0
    /\ cursor = [kind |-> "none", depth |-> 0, pos |-> 0]
    /\ ImporterUnused
    /\ upFail = 0

NextReader == PickleIter \/ PickleNext \/ ReaderAbandon \/ ReaderCollect

SpecReader == InitReader /\ [][NextReader]_vars

-----------------------------------------------------------------------------
(* Trace (feldspar/base.py): construction and its accessors. *)

\* The trace-level attribute mappings, as sets of <<key, value>> pairs.
AttrMaps == {{}} \cup {{<<"concept:name", r>>} : r \in Records}

\* The attributes argument: <<>> (not given, None) or <<m>>.
AttrArgs == {<<>>} \cup {<<m>> : m \in AttrMaps}

\* Trace.__init__: the fields of the new object; inside the class the names
\* __list and __attributes are stored as _Trace__list and _Trace__attributes.
TraceInit(events, attributes) ==
    ("_Trace__list" :> events) @@
    ("_Trace__attributes" :> (IF attributes = <<>> THEN {} ELSE attributes[1]))

\* Reading field f of object o.
GetAttr(o, f) ==
    IF f \in DOMAIN o THEN [status |-> "ok", value |-> o[f]]
    ELSE [status |-> "AttributeError", value |-> {}]

\* The attributes property of Trace.
TraceAttributes(o) == GetAttr(o, "attributes_")

\* Trace.__len__
TraceLen(o) == [status |-> "ok", value |-> Len(o["_Trace__list"])]

\* Everything but the Trace object.
notTrace == <<data, base, stages, cacheVars, delivered, passes, exhausted,
              allFull, shortPass, cursor, impVars, srcVars, instances>>

\* Trace(*events, attributes=...), as XESImporter.__parse_trace or a caller
\* builds it.
NewTrace ==
    /\ pc = "trace"
    /\ traceObj.obj = <<>>
    /\ \E events \in SeqsUpTo(Records, MaxLen), attributes \in AttrArgs :
          traceObj' = [obj |-> <<TraceInit(events, attributes)>>,
                       given |-> attributes,
                       read |-> <<>>]
    /\ result' = "constructed"
    /\ UNCHANGED notTrace

\* trace.attributes
ReadAttributes ==
    /\ pc = "trace"
    /\ traceObj.obj # <<>>
    /\ traceObj' = [traceObj EXCEPT !.read = <<TraceAttributes(traceObj.obj[1])>>]
    /\ result' = "attributes"
    /\ UNCHANGED notTrace

\* len(trace)
ReadLen ==
    /\ pc = "trace"
    /\ traceObj.obj # <<>>
    /\ traceObj' = [traceObj EXCEPT !.read = <<TraceLen(traceObj.obj[1])>>]
    /\ result' = "len"
    /\ UNCHANGED notTrace

InitTrace ==
    /\ data = <<>>
    /\ base = "list"
    /\ stages = <<TraceGeneratorInit("None")>>
    /\ fs = [p \in Paths |-> [exists |-> FALSE, bytes |-> <<>>]]
    /\ fs0 = fs
    /\ pc = "trace"
    /\ filepath = "None"
    /\ cached = FALSE
    /\ cacheBuf = <<>>
    /\ cSource = [kind |-> "none", pos |-> 0]
    /\ reader = [state |-> "unset", off |-> 0]
    /\ result = "none"
    /\ delivered = <<>>
    /\ passes = 0
    /\ exhausted = FALSE
    /\ allFull = TRUE
    /\ shortPass = FALSE
    /\ upIters = 0
    /\ upPulls = 0
    /\ upExhausts = 0
    /\ cursor = [kind |-> "none", depth |-> 0, pos |-> 0]
    /\ ImporterUnused
    /\ upFail = 0

NextTrace == NewTrace \/ ReadAttributes \/ ReadLen

SpecTrace == InitTrace /\ [][NextTrace]_vars

-----------------------------------------------------------------------------
(* Properties. *)

\* list(U) for the stage U the cache was constructed on.
Out == Drain(stages, data, 0)

MemoryMode == pc = "ready" /\ filepath = "None"

\* The cache was constructed on a target that existed and was empty.
EmptyTarget ==
    /\ pc = "ready"
    /\ filepath # "None"
    /\ fs0[filepath].exists
    /\ fs0[filepath].bytes = <<>>

\* A cache was requested on a target path that did not exist.
AbsentTargetAttempt == filepath # "None" /\ ~fs0[filepath].exists

\* The cache was constructed on a target that already held data.
DataTarget ==
    /\ pc = "ready"
    /\ filepath # "None"
    /\ fs0[filepath].exists
    /\ fs0[filepath].bytes # <<>>

\* C1: in memory mode, when every pass so far was driven to exhaustion, the
\* pass that has just been exhausted (the first or a later one) delivered
\* exactly the records of the upstream, in order.
CacheTransparency ==
    (MemoryMode /\ allFull /\ exhausted) => delivered = Out

CacheTransparencyWitness ==
    /\ MemoryMode
    /\ allFull
    /\ exhausted
    /\ passes >= 2
    /\ Len(delivered) >= 2

\* C2: in memory mode, once the cache is populated no step begins a pass on
\* the upstream, pulls a record from it or exhausts it again; a record
\* delivered after population is the buffer's record at that position; the
\* upstream is exhausted at most once.
NoUpstreamAfterPopulation ==
    /\ [][(MemoryMode /\ cached) =>
            /\ upIters' = upIters
            /\ upPulls' = upPulls
            /\ upExhausts' = upExhausts
            /\ (Len(delivered') > Len(delivered) =>
                  delivered' = SubSeq(cacheBuf, 1, Len(delivered')))]_vars
    /\ [](MemoryMode => upExhausts <= 1)

NoUpstreamAfterPopulationWitness ==
    /\ MemoryMode
    /\ cached
    /\ passes >= 2
    /\ Len(delivered) >= 1
    /\ upExhausts = 1

\* C3: in memory mode a pass stopped after fewer records than the upstream
\* holds leaves the cache unpopulated, and every full pass after such a pass
\* delivers exactly the upstream's complete sequence.
PartialPassDoesNotPopulate ==
    /\ (MemoryMode /\ upExhausts = 0) => ~cached
    /\ (MemoryMode /\ shortPass /\ exhausted) => delivered = Out

\* C4: the population flag is never reset: once populated, populated after
\* every step.
PopulationMonotone == [][cached => cached']_vars

PopulationMonotoneWitness ==
    /\ MemoryMode
    /\ cached
    /\ ~allFull
    /\ passes >= 3

\* C5: a file-mode cache constructed on an existing empty target is populated
\* as soon as it is constructed: its source is the file-backed reader, the
\* file holds every record of the upstream in order (so it is non-empty for a
\* non-empty upstream), and the upstream was passed over exactly once, to
\* exhaustion.
EagerPopulationOnEmptyTarget ==
    EmptyTarget =>
        /\ cached
        /\ cSource.kind = "pickle"
        /\ fs[filepath].bytes = DumpAll(Out)
        /\ LoadAll(fs[filepath].bytes, 0) = Out
        /\ (Out # <<>> => Len(fs[filepath].bytes) > 0)
        /\ upIters = 1
        /\ upPulls = Len(Out)
        /\ upExhausts = 1

EagerPopulationOnEmptyTargetWitness ==
    /\ EmptyTarget
    /\ passes = 0
    /\ Len(Out) >= 2
    /\ Len(fs[filepath].bytes) > 0

\* C6 (as stated): constructing a file-mode cache on a target path that does
\* not exist creates the file, fills it from the upstream and returns a
\* populated stage.
AbsentTargetPopulated ==
    AbsentTargetAttempt =>
        /\ pc = "ready"
        /\ cached
        /\ fs[filepath].exists
        /\ LoadAll(fs[filepath].bytes, 0) = Out

\* C6 (amended): constructing a file-mode cache on a target path that does
\* not exist fails with ValueError: no stage is produced, no file is created or
\* written and nothing is pulled from the upstream.
AbsentTargetRejected ==
    AbsentTargetAttempt =>
        /\ pc = "failed"
        /\ result = "ValueError"
        /\ ~cached
        /\ fs = fs0
        /\ upIters = 0
        /\ upPulls = 0

AbsentTargetRejectedWitness ==
    /\ AbsentTargetAttempt
    /\ pc = "failed"
    /\ Len(Out) >= 1

\* C7: a file-mode cache constructed on a target that already holds data is
\* populated without touching its upstream or the file, at construction and
\* on every later pass, and an exhausted pass delivered exactly the records
\* stored in the file, in file order.
ExistingDataServed ==
    DataTarget =>
        /\ cached
        /\ upIters = 0 /\ upPulls = 0 /\ upExhausts = 0
        /\ fs = fs0
        /\ \E prior \in PriorContents :
              /\ fs0[filepath].bytes = DumpAll(prior)
              /\ exhausted => delivered = prior

ExistingDataServedWitness ==
    /\ DataTarget
    /\ exhausted
    /\ passes >= 2
    /\ Len(delivered) >= 2
    /\ delivered # Out

\* C8: on a fresh empty target, each of the successive full passes over the
\* file-mode cache delivered exactly the records of the upstream, in order.
FileRoundTrip ==
    (EmptyTarget /\ allFull /\ exhausted) => delivered = Out

FileRoundTripWitness ==
    /\ EmptyTarget
    /\ allFull
    /\ exhausted
    /\ passes >= 2
    /\ Len(delivered) >= 2

\* C9: in every state of a constructed cache stage, reading attributes
\* succeeds and returns the metadata of the stage the cache was constructed on.
CacheAttributesAvailable ==
    pc = "ready" => CacheAttributes = StageAttributes(Len(stages))

\* C10: every stage derived from the first stage S (map, filter, cache) has
\* the attributes of S.
MetadataPropagated ==
    /\ \A i \in 1..Len(stages) : StageAttributes(i) = StageAttributes(1)
    /\ pc = "ready" => CacheAttributes = StageAttributes(1)

-----------------------------------------------------------------------------
(* Properties of map and filter stages. *)

\* list(U) for the stage U below the stage the cursor iterates.
BelowOut == Drain(SubSeq(stages, 1, cursor.depth - 1), data, 0)

\* The cursor iterates a stage of the given kind.
CursorOn(kind) == cursor.kind = "iter" /\ stages[cursor.depth].kind = kind

\* C11: an exhausted pass over U.filter(P) delivered exactly the records of U
\* that satisfy P, in their order in U.
FilterCorrect ==
    (CursorOn("filter") /\ exhausted) => delivered = SelectSeq(BelowOut, Predicate)

FilterCorrectWitness ==
    /\ CursorOn("filter")
    /\ exhausted
    /\ Len(delivered) >= 1
    /\ Len(delivered) < Len(BelowOut)

\* C12: an exhausted pass over U.map(F) delivered F(x) for each record x of U,
\* one result per record, in the order of U.
MapCorrect ==
    (CursorOn("map") /\ exhausted) =>
        delivered = [i \in 1..Len(BelowOut) |-> MapFunc(BelowOut[i])]

MapCorrectWitness ==
    /\ CursorOn("map")
    /\ exhausted
    /\ Len(delivered) >= 2

\* C13: every begin-pass on a map or filter stage starts from the upstream's
\* first record, so every exhausted pass, also one begun after an abandoned
\* pass, delivered the stage's complete result sequence.
StagesStateless ==
    (cursor.kind = "iter" /\ cursor.depth > 1) =>
        /\ ~exhausted =>
              delivered \o Drain(SubSeq(stages, 1, cursor.depth), data, cursor.pos)
                = Drain(SubSeq(stages, 1, cursor.depth), data, 0)
        /\ exhausted => delivered = Drain(SubSeq(stages, 1, cursor.depth), data, 0)

StagesStatelessWitness ==
    /\ cursor.kind = "iter"
    /\ cursor.depth > 1
    /\ shortPass
    /\ exhausted
    /\ passes >= 3
    /\ Len(delivered) >= 1

-----------------------------------------------------------------------------
(* The importer's passes and resources. *)

\* The handles opened for pass p.
HandlesOf(p) == {h \in DOMAIN handles : handles[h].pass = p}

\* s is an initial segment of t.
IsPrefix(s, t) == Len(s) <= Len(t) /\ s = SubSeq(t, 1, Len(s))

\* C14: a pass the importer begins reads the source from its start again:
\* the new parser context stands before the first record, and a pass pulled
\* to exhaustion through its own cursor alone has delivered every trace of
\* the log in order, whatever passes or metadata reads went before.
PassRereadsSource ==
    (ipc = "ready" /\ passes >= 1 /\ ~interleaved) =>
        /\ IsPrefix(got[passes], data)
        /\ (iContext.state = "live" => iContext.pos = Len(got[passes]))
        /\ (exhausted => got[passes] = data)

PassRereadsSourceWitness ==
    /\ ipc = "ready"
    /\ passes = 2
    /\ exhausted
    /\ ~interleaved
    /\ Len(got[1]) >= 1
    /\ Len(got[2]) >= 2
    /\ 1 \in dropped

\* C15: when a pull ends a pass (StopIteration), every handle opened for that
\* pass (the parser context and, under gz, the decompression stream) has been
\* released exactly once, and later pulls release nothing again.
ExhaustionReleasesResources ==
    (ipc = "ready" /\ exhausted) =>
        /\ iContext.state = "deleted"
        /\ \A h \in HandlesOf(passes) : handles[h].closes = 1

ExhaustionReleasesResourcesWitness ==
    /\ ipc = "ready"
    /\ exhausted
    /\ compression = "gz"
    /\ Cardinality(HandlesOf(passes)) = 2
    /\ result = "AttributeError"

\* C16: once the consumer has given up an unexhausted cursor, the handles
\* opened for its pass are released.
AbandonReleasesResources ==
    \A p \in dropped : \A h \in HandlesOf(p) : handles[h].closes = 1

\* C17: every cursor reads through a parser context of its own, so the
\* records pulled through one cursor are the log's records in order from the
\* first, whatever is done with the cursors of later passes.
CursorsIndependent ==
    ipc = "ready" => \A p \in 1..passes : IsPrefix(got[p], data)

\* C18: an importer constructed with "infer" stores the codec detected in the
\* file as its compression.
InferStoresDetected ==
    (ipc = "ready" /\ arg = "infer") => compression = InferCompression(sig)

\* C19: construction with "infer" on a file whose detected compression is
\* neither gz nor zip fails with ValueError and opens nothing; on a gz or zip
\* file, or a file with no known signature, it succeeds.
UnsupportedInferRejected ==
    (arg = "infer" /\ ipc # "new") =>
        IF InferCompression(sig) \in ParsableCompressions \cup {"None"}
        THEN ipc = "ready"
        ELSE /\ ipc = "failed"
             /\ result = "ValueError"
             /\ handles = <<>>
             /\ passes = 0

UnsupportedInferRejectedWitness ==
    /\ arg = "infer"
    /\ sig = "bz2"
    /\ ipc = "failed"
    /\ result = "ValueError"

\* C20: a begin-pass on a zip archive opens the archive, then its first
\* member as the source, and a parser context over it.
ZipPassOpensMember ==
    (ipc = "ready" /\ compression = "zip" /\ sig = "zip" /\ passes >= 1) =>
        /\ iArchive # 0
        /\ iSource # 0
        /\ iContext.state # "none"
        /\ result # "AttributeError"

\* C21: when a pull, or the metadata pass, fails on input that is not the
\* markup expected, the handles opened for the failing pass have been released.
ErrorPathReleases ==
    (ipc = "ready" /\ result = "ParseError") =>
        \A h \in Referenced \cap DOMAIN handles : handles[h].closes = 1

\* C22: every pass over the file-backed reader opens one handle, and the
\* handle of every pass that has ended or was given up has been closed
\* exactly once.
ReaderHandlesReleased ==
    pc = "reader" =>
        /\ Len(handles) = passes
        /\ \A h \in DOMAIN handles :
              (h < passes \/ exhausted \/ h \in dropped) => handles[h].closes = 1

\* The base records that must be read to produce the first k records of the
\* top stage: for maps k of them, for a filter those up to and including the
\* k-th that satisfies the predicate.
Needed(k) ==
    CHOOSE n \in 0..Len(data) :
        /\ Len(Drain(stages, SubSeq(data, 1, n), 0)) >= k
        /\ \A m \in 0..(n - 1) : Len(Drain(stages, SubSeq(data, 1, m), 0)) < k

\* C23: an unpopulated memory-mode cache takes nothing from its upstream
\* before the first pull, has pulled exactly as many records as it has handed
\* to the consumer, and the stages below have read the source no further than
\* the last record handed over required.
PullLaziness ==
    (MemoryMode /\ ~cached) =>
        /\ upPulls = Len(cacheBuf)
        /\ cSource.kind = "stage" => (upPulls = 0 /\ upIters = 0)
        /\ cSource.kind = "upiter" =>
              cSource.pos = Needed(IF RestartsOnIter THEN Len(delivered)
                                   ELSE Len(cacheBuf))

PullLazinessWitness ==
    /\ MemoryMode
    /\ ~cached
    /\ base = "importer"
    /\ Len(stages) = 2
    /\ stages[2].kind = "filter"
    /\ Len(delivered) = 1
    /\ cSource.kind = "upiter"
    /\ cSource.pos = 2
    /\ Len(data) = 3

\* The declarations with the tag that stand before the first trace.
DeclaredBefore(tag) == {i \in DOMAIN decls : decls[i] = tag}

\* C24: for a log that declares log-level attributes before its first trace,
\* the attributes entry of the record _extract_meta returns is not empty.
MetaHasAttributes ==
    (meta # <<>> /\ DeclaredBefore("string") # {}) => meta[1].attributes # {}

\* C25: the metadata pass takes no element from the source beyond the first
\* trace, and the classifiers, extensions and omni entries it returns are
\* exactly the declarations standing before that trace.
MetaStopsAtFirstTrace ==
    (meta # <<>> /\ data # <<>>) =>
        /\ metaRead = Len(decls) + 1
        /\ meta[1].classifiers = DeclaredBefore("classifier")
        /\ meta[1].extensions = DeclaredBefore("extension")
        /\ meta[1].omni = DeclaredBefore("global")

MetaStopsAtFirstTraceWitness ==
    /\ meta # <<>>
    /\ Len(data) >= 2
    /\ decls = <<"classifier", "global">>
    /\ late # <<>>
    /\ result = "meta"
    /\ meta[1].classifiers = {1}
    /\ metaRead = 3

\* C26: when _extract_meta has returned, every handle it opened has been
\* released, and a pass begun afterwards and pulled to its end delivers every
\* trace of the log from the first on.
MetaSelfContained ==
    (ipc = "ready" /\ meta # <<>>) =>
        /\ HandlesOf(0) # {}
        /\ \A h \in HandlesOf(0) : handles[h].closes = 1
        /\ result = "meta" => iContext.state = "deleted"
        /\ (passes >= 1 /\ ~interleaved /\ exhausted) => got[passes] = data

MetaSelfContainedWitness ==
    /\ ipc = "ready"
    /\ meta # <<>>
    /\ compression = "gz"
    /\ handles[1].pass = 0
    /\ passes = 1
    /\ exhausted
    /\ got[1] = data
    /\ Len(data) >= 2

\* C27: a construction of a file-mode cache on a target that fails validation
\* (the path does not exist) raises ValueError in that very step: no record is
\* pulled from the upstream, no file is created or written, and no cache
\* stage comes into being.
InvalidTargetFatal ==
    [][(pc = "build" /\ filepath' # "None" /\ ~fs[filepath'].exists) =>
          /\ pc' = "failed"
          /\ result' = "ValueError"
          /\ fs' = fs
          /\ upIters' = upIters
          /\ upPulls' = upPulls
          /\ cached' = cached
          /\ cSource' = cSource]_vars

InvalidTargetFatalWitness ==
    /\ pc = "failed"
    /\ result = "ValueError"
    /\ filepath = "absent.dat"
    /\ ~fs["absent.dat"].exists
    /\ Len(stages) = 2
    /\ Len(Out) >= 2

\* C28: reading attributes on a trace succeeds and returns the mapping given
\* at construction, the empty mapping when none was given.
TraceAttributesReadable ==
    (pc = "trace" /\ result = "attributes") =>
        /\ traceObj.read[1].status = "ok"
        /\ traceObj.read[1].value =
              (IF traceObj.given = <<>> THEN {} ELSE traceObj.given[1])

\* C29: in memory mode, while the cache is unpopulated its buffer holds
\* exactly the records handed over so far in the current pass, a prefix of
\* the upstream's output; once it is populated the buffer is the upstream's
\* complete output.
MemoryBufferInvariant ==
    MemoryMode =>
        IF ~cached
        THEN cacheBuf = delivered /\ IsPrefix(cacheBuf, Out)
        ELSE cacheBuf = Out

\* C30: whenever the cache's target is not empty it holds the complete output
\* of one full pass over the upstream (or what it held before), also when the
\* upstream raised during the population pass.
FilePopulationAllOrNothing ==
    (filepath # "None" /\ fs0[filepath].exists /\ fs0[filepath].bytes = <<>>) =>
        \/ fs[filepath].bytes = <<>>
        \/ LoadAll(fs[filepath].bytes, 0) = Out

\* The records the file-mode cache has materialized in its target.
Materialized == LoadAll(fs[filepath].bytes, 0)

\* C32: a pass over a populated cache starts at the first materialized
\* record: what it has delivered is the materialized sequence up to its
\* cursor, and at its end it has delivered the whole sequence, whatever
\* passes were given up before.
PopulatedRestartsCleanly ==
    /\ (pc = "ready" /\ cSource.kind = "bufiter") =>
          /\ cSource.pos = Len(delivered)
          /\ IsPrefix(delivered, cacheBuf)
          /\ exhausted => delivered = cacheBuf
    /\ (pc = "ready" /\ cSource.kind = "pickle" /\ passes >= 1) =>
          /\ IsPrefix(delivered, Materialized)
          /\ reader.off = Len(DumpAll(delivered))
          /\ exhausted => delivered = Materialized

PopulatedRestartsCleanlyWitness ==
    /\ pc = "ready"
    /\ filepath = "None"
    /\ base = "importer"
    /\ Len(stages) = 1
    /\ passes = 3
    /\ shortPass
    /\ cSource.kind = "bufiter"
    /\ exhausted
    /\ cacheBuf = Out
    /\ delivered = cacheBuf
    /\ Len(delivered) >= 2

\* C33: after a pass over the importer has signalled end-of-sequence, a
\* further pull without a new begin-pass signals end-of-sequence again and
\* raises no other error.
EndOfSequenceStable ==
    (ipc = "ready" /\ exhausted) => result \in {"StopIteration", "meta"}

\* C33, for the file-backed reader.
ReaderEndOfSequenceStable ==
    (pc = "reader" /\ exhausted) => result = "StopIteration"

\* C31: the construction of a later file-mode cache on the target of an
\* earlier one pulls nothing from the later instance's upstream and leaves
\* the target as it is.
BuildOnceAcrossInstances ==
    [][(pc = "ready" /\ instances' = instances + 1) =>
          /\ upIters' = upIters
          /\ upPulls' = upPulls
          /\ fs' = fs]_vars

====
